---------------------------- MODULE Spec2Model ----------------------------
(* Staged black-box calibration of a rigid-body simulator                 *)
(* (main.py, src/simulator.py, src/optimizer.py).                         *)
(*                                                                         *)
(* Number representation.  Python floats are modelled as integers:        *)
(*   - parameter values (friction, elasticity, mass) in hundredths,       *)
(*     so friction 0.5 is 50, elasticity 0.95 is 95 and mass 12.0 is 1200;*)
(*   - impulse vectors in their own units;                                *)
(*   - inside the physics engine, velocity in 1/60 px/s and position in   *)
(*     1/3600 px, which makes one step of 1/60 s exact;                   *)
(*   - recorded positions in units of 32 px, which keeps the sum of       *)
(*     squares of a 500-step trajectory inside TLC's integers.            *)
EXTENDS Integers, Sequences, FiniteSets, TLC

VARIABLES
  \* --- run_staged_calibration (main.py) ---
  pc,                 \* position of the controller
  best_params,        \* local dict best_params
  result_a,           \* result_a.x, <<>> before Stage A returned
  result_b,           \* result_b.x
  result_c,           \* result_c.x
  final_params,       \* local dict final_params
  opt,                \* the running gp_minimize call
  out,                \* stage banners printed so far
  \* --- module globals of main.py ---
  call_count,
  current_stage,
  \* --- the arguments bound by partial(objective_function, ...) ---
  search_space_names,
  fixed_params,
  ground_truth_traj,
  steps,
  impulses,
  \* --- the last call of objective_function ---
  last_call,
  seen,               \* by free values: the first call made with them
  \* --- Simulator.run_simulation_for_trajectory (src/simulator.py) ---
  sim_pc,
  sim_step,           \* loop variable step
  sim_k,              \* position of the inner loop over impulses
  sim_body,           \* self.body
  trajectory,         \* local list trajectory
  applied,            \* every apply_impulse_at_local_point call made
  advances,           \* number of space.step calls made
  \* --- the trajectory comparators ---
  cmp_a,
  cmp_k,
  cmp_main,           \* calculate_rmse(a, a[:k])             (main.py)
  cmp_opt,            \* _calculate_rmse(a, a[:k])            (optimizer.py)
  cmp_ref             \* the same comparator on (a, a_padded)

ctl_vars == <<best_params, result_a, result_b, result_c, final_params, opt, out>>
obj_vars == <<call_count, current_stage, search_space_names, fixed_params,
              ground_truth_traj, steps, impulses, last_call, seen>>
sim_vars == <<sim_pc, sim_step, sim_k, sim_body, trajectory, applied, advances>>
cmp_vars == <<cmp_a, cmp_k, cmp_main, cmp_opt, cmp_ref>>
vars == <<pc, ctl_vars, obj_vars, sim_vars, cmp_vars>>

-----------------------------------------------------------------------------
(* Bounds of the model *)

\* Number of intervals of the sample grid the optimizer draws its query points from.
GridDiv == 2
\* Number of calls of the objective made on its own.
MaxCalls == 3
\* Longest trajectory handed to the comparators on their own.
MaxLen == 3
\* Largest coordinate of such a trajectory.
MaxCoord == 1
\* Largest step count of a simulation run on its own.
MaxSteps == 3
\* Longest impulse schedule of a simulation run on its own.
MaxImpulses == 2

-----------------------------------------------------------------------------
(* Python values *)

Range(s) == {s[i] : i \in DOMAIN s}

\* A dict: its keys in insertion order and the value of each key.
Dict(ks, f) == [keys |-> ks, val |-> f]
EmptyDict == Dict(<<>>, [x \in {} |-> 0])

\* (d[k] = v written as "del d[k]; d[k] = v": the key moves to the end)
DictSet_reinsert(d, k, v) ==
  Dict(Append(SelectSeq(d.keys, LAMBDA x : x # k), k),
       [x \in DOMAIN d.val \cup {k} |-> IF x = k THEN v ELSE d.val[x]])

\* d[k] = v : a new key is appended, an existing key keeps its position.
DictSet(d, k, v) ==
  IF k \in Range(d.keys)
  THEN [d EXCEPT !.val = [x \in DOMAIN d.val |-> IF x = k THEN v ELSE d.val[x]]]
  ELSE Dict(Append(d.keys, k), [x \in DOMAIN d.val \cup {k} |-> IF x = k THEN v ELSE d.val[x]])

\* d.get(k, default)
DictGet(d, k, default) == IF k \in Range(d.keys) THEN d.val[k] ELSE default

\* list(d.values())
DictValues(d) == [i \in 1..Len(d.keys) |-> d.val[d.keys[i]]]


-----------------------------------------------------------------------------
(* Configuration of main.py *)

GROUND_TRUTH_PARAMS ==
  Dict(<<"friction", "elasticity", "mass">>,
       [friction |-> 70, elasticity |-> 90, mass |-> 1200])

\* run_staged_calibration: "initial_guess = {...}"
initial_guess ==
  Dict(<<"friction", "elasticity", "mass">>,
       [friction |-> 50, elasticity |-> 50, mass |-> 1500])

EXP_A_IMPULSES == << <<0, <<0, 8000>> >> >>
EXP_A_STEPS == 300

EXP_B_IMPULSES == << <<0, <<30000, 0>> >> >>
EXP_B_STEPS == 300

EXP_C_IMPULSES == << <<0, <<8000, 8000>> >>, <<300, <<25000, 0>> >> >>
EXP_C_STEPS == 500

-----------------------------------------------------------------------------
(* src/simulator.py.  The physics engine behind pymunk.Space is an       *)
(* external library; it is modelled as a deterministic integrator with   *)
(* gravity, a floor contact and Coulomb friction, whose contact          *)
(* coefficients are the products of the two shapes' coefficients.        *)

\* Simulator.__init__: the floor segment, and the body with its default parameters.
Simulator(params) ==
  [ gravity |-> <<0, -1000>>,
    floor   |-> [y |-> 50, radius |-> 5, friction |-> 100, elasticity |-> 0],
    mass       |-> DictGet(params, "mass", 1000),
    radius     |-> 20,
    elasticity |-> DictGet(params, "elasticity", 95),
    friction   |-> DictGet(params, "friction", 70),
    q |-> <<0, 300 * 3600>>,
    w |-> <<0, 0>> ]

\* the velocity an impulse v gives a body of this mass
ImpulseVelocity(sim, v) ==
  << (6000 * v[1]) \div sim.mass, (6000 * v[2]) \div sim.mass >>

\* body.apply_impulse_at_local_point(v): the velocity changes by v / mass.
ApplyImpulse(sim, v) ==
  [sim EXCEPT !.w = << sim.w[1] + ImpulseVelocity(sim, v)[1],
                       sim.w[2] + ImpulseVelocity(sim, v)[2] >>]

Toward0(v, d) == IF v > d THEN v - d ELSE IF v < -d THEN v + d ELSE 0

\* space.step(1 / 60.0)
SpaceStep(sim) ==
  LET wx   == sim.w[1] + sim.gravity[1]
      wy   == sim.w[2] + sim.gravity[2]
      qx   == sim.q[1] + wx
      qy   == sim.q[2] + wy
      rest == (sim.floor.y + sim.floor.radius + sim.radius) * 3600
      e    == (sim.elasticity * sim.floor.elasticity) \div 100
      mu   == (sim.friction * sim.floor.friction) \div 100
  IN  IF qy < rest
      THEN [sim EXCEPT !.q = <<qx, rest>>,
                       !.w = << Toward0(wx, (mu * (-sim.gravity[2])) \div 100),
                                ((-wy) * e) \div 100 >>]
      ELSE [sim EXCEPT !.q = <<qx, qy>>, !.w = <<wx, wy>>]

\* self.body.position
Position(sim) == << sim.q[1] \div (3600 * 32), sim.q[2] \div (3600 * 32) >>

\* ("if step >= t_impulse": the impulse is applied again at every later step)
ApplyIfScheduled_from(sim, entry, step) ==
  IF step >= entry[1] THEN ApplyImpulse(sim, entry[2]) ELSE sim

\* One round of the inner loop: "if step == t_impulse: apply_impulse...".
ApplyIfScheduled(sim, entry, step) ==
  IF step = entry[1] THEN ApplyImpulse(sim, entry[2]) ELSE sim

\* "for t_impulse, impulse_vector in impulses", from entry k on.
RECURSIVE ApplyScheduled(_, _, _, _)
ApplyScheduled(sim, imps, k, step) ==
  IF k > Len(imps) THEN sim
  ELSE ApplyScheduled(ApplyIfScheduled(sim, imps[k], step), imps, k + 1, step)

\* (the two statements swapped: the position is recorded before the advance)
AdvanceAndRecord_before(sim, traj) ==
  [sim |-> SpaceStep(sim), trajectory |-> Append(traj, Position(sim))]

\* "self.space.step(1 / 60.0); trajectory.append(self.body.position)"
AdvanceAndRecord(sim, traj) ==
  LET after == SpaceStep(sim)
  IN  [sim |-> after, trajectory |-> Append(traj, Position(after))]

\* One round of "for step in range(steps)".
LoopBody(s, imps, step) ==
  AdvanceAndRecord(ApplyScheduled(s.sim, imps, 1, step), s.trajectory)

\* The rounds lo .. hi-1 of "for step in range(steps)", in order.  The range
\* is halved so that the evaluation never nests as deep as the step count.
RECURSIVE LoopRange(_, _, _, _)
LoopRange(s, imps, lo, hi) ==
  IF lo >= hi THEN s
  ELSE IF hi = lo + 1 THEN LoopBody(s, imps, lo)
  ELSE LET mid   == (lo + hi) \div 2
           first == LoopRange(s, imps, lo, mid)
       IN  IF Len(first.trajectory) >= 0 THEN LoopRange(first, imps, mid, hi) ELSE first

SimulateLoop(sim, n, imps) ==
  LoopRange([sim |-> sim, trajectory |-> <<>>], imps, 0, n).trajectory

-----------------------------------------------------------------------------
(* The trajectory comparators.  A comparison returns                      *)
(* [ok |-> TRUE, value |-> rmse] or [ok |-> FALSE, value |-> -1] when     *)
(* numpy raises.                                                           *)

Raised == [ok |-> FALSE, value |-> -1]
Returned(v) == [ok |-> TRUE, value |-> v]
\* np.mean of an empty array: nan, returned with a warning
NotANumber == Returned(-2)

Sq(x) == x * x

\* sum((t1 - t2)**2) over all entries and both coordinates
SumSq(t1, t2) ==
  LET part[lo \in Nat, hi \in Nat] ==
        IF lo > hi THEN 0
        ELSE IF lo = hi THEN Sq(t1[lo][1] - t2[lo][1]) + Sq(t1[lo][2] - t2[lo][2])
        ELSE part[lo, (lo + hi) \div 2] + part[(lo + hi) \div 2 + 1, hi]
  IN  part[1, Len(t1)]

\* the integer square root of n, looked for in 0..46340 by bisection
Sqrt(n) ==
  LET root[m \in Nat, lo \in Nat, hi \in Nat] ==
        IF lo >= hi THEN lo
        ELSE IF ((lo + hi + 1) \div 2) * ((lo + hi + 1) \div 2) <= m
             THEN root[m, (lo + hi + 1) \div 2, hi]
             ELSE root[m, lo, (lo + hi + 1) \div 2 - 1]
  IN  root[n, 0, 46340]

\* np.sqrt(np.mean((t1 - t2)**2)) of two arrays of the same shape (n, 2)
RootMeanSquare(t1, t2) ==
  LET rms[a \in {t1}, b \in {t2}] == Sqrt(SumSq(a, b) \div (2 * Len(a)))
  IN  rms[t1, t2]

\* numpy broadcasting of an array of shape (1, 2) to n rows
Broadcast(t, n) == IF Len(t) = n THEN t ELSE [i \in 1..n |-> t[1]]

\* main.py calculate_rmse: "t1 - t2" of arrays of shapes (n1, 2) and (n2, 2)
\* is defined when n1 = n2 or one of them is 1, and raises ValueError otherwise.
calculate_rmse(t1, t2) ==
  LET rmse[a \in {t1}, b \in {t2}] ==
        LET n1 == Len(a)
            n2 == Len(b)
            n  == IF n1 > n2 THEN n1 ELSE n2
        IN  IF n1 = 0 /\ n2 = 0 THEN NotANumber
            ELSE IF n1 = 0 \/ n2 = 0 THEN Raised
            ELSE IF n1 = n2 \/ n1 = 1 \/ n2 = 1
                 THEN Returned(RootMeanSquare(Broadcast(a, n), Broadcast(b, n)))
                 ELSE Raised
  IN  rmse[t1, t2]

\* np.vstack([t, np.tile(t[-1], (n - len(t), 1))])
PadWithLast(t, n) == [i \in 1..n |-> IF i <= Len(t) THEN t[i] ELSE t[Len(t)]]

\* src/optimizer.py BayesianOptimizer._calculate_rmse
BO_calculate_rmse(trajectory1, trajectory2) ==
  LET len1 == Len(trajectory1)
      len2 == Len(trajectory2)
  IN  IF len1 > len2
      THEN IF len2 = 0 THEN Raised
           ELSE Returned(RootMeanSquare(trajectory1, PadWithLast(trajectory2, len1)))
      ELSE IF len2 > len1
      THEN IF len1 = 0 THEN Raised
           ELSE Returned(RootMeanSquare(PadWithLast(trajectory1, len2), trajectory2))
      ELSE IF len1 = 0 THEN NotANumber
           ELSE Returned(RootMeanSquare(trajectory1, trajectory2))

-----------------------------------------------------------------------------
(* The optimizer's query points and the trajectories they lead to *)

\* skopt.space.Real(low, high, name=...)
Real(low, high, name) == [low |-> low, high |-> high, name |-> name]

search_space_a == << Real(10, 100, "elasticity"), Real(500, 2500, "mass") >>
search_space_b == << Real(10, 100, "friction") >>
search_space_c == << Real(10, 100, "friction"), Real(10, 100, "elasticity"),
                     Real(500, 2500, "mass") >>

\* The points of a search space the optimizer is let to query: those at the
\* same fraction i / GridDiv of every dimension's interval.
SamplePoints(dimensions) ==
  { [d \in 1..Len(dimensions) |->
       dimensions[d].low
         + (i * (dimensions[d].high - dimensions[d].low)) \div GridDiv]
    : i \in 0..GridDiv }

Scenarios == { <<EXP_A_STEPS, EXP_A_IMPULSES>>, <<EXP_B_STEPS, EXP_B_IMPULSES>>,
               <<EXP_C_STEPS, EXP_C_IMPULSES>> }

\* The parameter sets the stages simulate: the ground truth, and an elasticity
\* and mass found by Stage A with the initial or a sampled friction.
TabulatedParams ==
  { GROUND_TRUTH_PARAMS.val }
  \cup { [friction |-> f, elasticity |-> x[1], mass |-> x[2]]
         : f \in {initial_guess.val.friction} \cup {y[1] : y \in SamplePoints(search_space_b)},
           x \in SamplePoints(search_space_a) }

TabulatedRuns ==
  { <<Simulator(Dict(<<"friction", "elasticity", "mass">>, p)), sc[1], sc[2]>>
    : p \in TabulatedParams, sc \in Scenarios }

\* The trajectories of the tabulated runs, each computed once.
Trajectories == [r \in TabulatedRuns |-> SimulateLoop(r[1], r[2], r[3])]

\* Simulator.run_simulation_for_trajectory
run_simulation_for_trajectory(sim, n, imps) ==
  IF <<sim, n, imps>> \in TabulatedRuns
  THEN Trajectories[<<sim, n, imps>>]
  ELSE SimulateLoop(sim, n, imps)

-----------------------------------------------------------------------------
(* main.py objective_function *)

\* "for i, name in enumerate(search_space_names): current_params[name] = params[i]"
\* from index i on; [raised |-> TRUE] is the IndexError of params[i].
RECURSIVE MergeFree(_, _, _, _)
MergeFree(current, names, params, i) ==
  IF i > Len(names) THEN [raised |-> FALSE, params |-> current]
  ELSE IF i > Len(params) THEN [raised |-> TRUE, params |-> current]
  ELSE MergeFree(DictSet(current, names[i], params[i]), names, params, i + 1)

\* ("current_params = fixed_params" without the copy: the merge writes to
\* the caller's dict)
FixedAfterMerge_aliased(fixed, merged) == merged

\* What the caller's fixed_params holds after the merge: the merge writes to
\* the copy made by "current_params = fixed_params.copy()".
FixedAfterMerge(fixed, merged) == fixed

\* "rmse = calculate_rmse(...); return rmse", after the simulation
ReturnOf(rmse) ==
  [ simulated |-> TRUE,
    error     |-> IF rmse.ok THEN "" ELSE "ValueError",
    rmse      |-> rmse.value ]

\* The call objective_function(params, ...) with the global call_count = count.
\* error is "" when the call returns, and the exception's name when it raises.
objective_function(params, names, fixed, truth, n, imps, count) ==
  LET merge == MergeFree(fixed, names, params, 1)
      call  == [ call_count     |-> count + 1,
                 params         |-> params,
                 fixed_params   |-> FixedAfterMerge(fixed, merge.params),
                 current_params |-> merge.params ]
  IN  IF merge.raised
      THEN call @@ [simulated |-> FALSE, error |-> "IndexError", rmse |-> -1]
      ELSE LET sim_trajectory ==
                 run_simulation_for_trajectory(Simulator(merge.params), n, imps)
           IN  call @@ ReturnOf(calculate_rmse(truth, sim_trajectory))

\* What is kept of a call: its arguments, what it simulated and its outcome.
CallRecord(r) ==
  [ params |-> r.params, current_params |-> r.current_params,
    simulated |-> r.simulated, error |-> r.error, rmse |-> r.rmse ]

NoCall ==
  [ params |-> <<>>, current_params |-> EmptyDict,
    simulated |-> FALSE, error |-> "", rmse |-> -1 ]

-----------------------------------------------------------------------------
(* skopt.gp_minimize, an external library, as run_staged_calibration uses  *)
(* it: it evaluates the warm-start point x0 first when one is given, then  *)
(* points of its search space, n_calls evaluations in all, and returns the *)
(* first point with the lowest value.                                      *)

gp_minimize(dimensions, n_calls, x0) ==
  [ dimensions |-> dimensions, n_calls |-> n_calls, x0 |-> x0,
    n |-> 0, x |-> <<>>, fun |-> -1 ]

NoOptimizer == gp_minimize(<<>>, 0, <<>>)

\* the points the next evaluation is drawn from
GpAsk(o) == IF o.n = 0 /\ o.x0 # <<>> THEN {o.x0} ELSE SamplePoints(o.dimensions)

\* the evaluation of x returned y
GpTell(o, x, y) ==
  IF o.n = 0 \/ y < o.fun
  THEN [o EXCEPT !.n = @ + 1, !.x = x, !.fun = y]
  ELSE [o EXCEPT !.n = @ + 1]

GpReturns(o) == o.n = o.n_calls

-----------------------------------------------------------------------------
(* main.py run_staged_calibration *)

\* (the stage is left as soon as one evaluation has been made)
StageEnds_early(o) == o.n > 0

\* The blocking call "result = gp_minimize(...)" is left when the optimizer
\* returns, and on no other condition.
StageEnds(o) == GpReturns(o)

\* (the reset left out)
ResetCount_kept(count) == count

\* "call_count = 0" at the start of a stage
ResetCount(count) == 0

\* Stage A: what is bound into obj_a and passed to gp_minimize.
StageA(best) ==
  [ label      |-> "Stage A (Bounce)",
    steps      |-> EXP_A_STEPS,
    impulses   |-> EXP_A_IMPULSES,
    names      |-> <<"elasticity", "mass">>,
    fixed      |-> Dict(<<"friction">>, [friction |-> best.val.friction]),
    dimensions |-> search_space_a,
    n_calls    |-> 50,
    x0         |-> <<>> ]

\* (Stage B fixed to the reference parameters instead of Stage A's result)
StageB_truth(best) ==
  [ label      |-> "Stage B (Slide)",
    steps      |-> EXP_B_STEPS,
    impulses   |-> EXP_B_IMPULSES,
    names      |-> <<"friction">>,
    fixed      |-> Dict(<<"elasticity", "mass">>,
                        [elasticity |-> GROUND_TRUTH_PARAMS.val.elasticity,
                         mass |-> GROUND_TRUTH_PARAMS.val.mass]),
    dimensions |-> search_space_b,
    n_calls    |-> 30,
    x0         |-> <<>> ]

StageB(best) ==
  [ label      |-> "Stage B (Slide)",
    steps      |-> EXP_B_STEPS,
    impulses   |-> EXP_B_IMPULSES,
    names      |-> <<"friction">>,
    fixed      |-> Dict(<<"elasticity", "mass">>,
                        [elasticity |-> best.val.elasticity, mass |-> best.val.mass]),
    dimensions |-> search_space_b,
    n_calls    |-> 30,
    x0         |-> <<>> ]

\* (the warm start put together in the order the stages found the values)
StageC_concat(best) ==
  [ label      |-> "Stage C (Refine)",
    steps      |-> EXP_C_STEPS,
    impulses   |-> EXP_C_IMPULSES,
    names      |-> <<"friction", "elasticity", "mass">>,
    fixed      |-> EmptyDict,
    dimensions |-> search_space_c,
    n_calls    |-> 70,
    x0         |-> <<best.val.elasticity, best.val.mass, best.val.friction>> ]

StageC(best) ==
  [ label      |-> "Stage C (Refine)",
    steps      |-> EXP_C_STEPS,
    impulses   |-> EXP_C_IMPULSES,
    names      |-> <<"friction", "elasticity", "mass">>,
    fixed      |-> EmptyDict,
    dimensions |-> search_space_c,
    n_calls    |-> 70,
    x0         |-> DictValues(best) ]

\* "best_params['elasticity'] = result_a.x[0]; best_params['mass'] = result_a.x[1]"
MergeResultA(best, x) == DictSet(DictSet(best, "elasticity", x[1]), "mass", x[2])

\* "best_params['friction'] = result_b.x[0]"
MergeResultB(best, x) == DictSet(best, "friction", x[1])

\* "final_params = {'friction': result_c.x[0], ...}"
FinalParams(x) ==
  Dict(<<"friction", "elasticity", "mass">>,
       [friction |-> x[1], elasticity |-> x[2], mass |-> x[3]])

\* The stage's banner, ground truth, objective and optimizer call.
StartStage(stage) ==
  /\ current_stage' = stage.label
  /\ call_count' = ResetCount(call_count)
  /\ out' = Append(out, stage.label)
  /\ ground_truth_traj' =
       run_simulation_for_trajectory(Simulator(GROUND_TRUTH_PARAMS),
                                     stage.steps, stage.impulses)
  /\ search_space_names' = stage.names
  /\ fixed_params' = stage.fixed
  /\ steps' = stage.steps
  /\ impulses' = stage.impulses
  /\ opt' = gp_minimize(stage.dimensions, stage.n_calls, stage.x0)
  /\ last_call' = NoCall
  /\ UNCHANGED <<best_params, result_a, result_b, result_c, final_params, seen>>
  /\ UNCHANGED <<sim_vars, cmp_vars>>

StartA ==
  /\ pc = "start"
  /\ pc' = "A"
  /\ StartStage(StageA(best_params))

StartB ==
  /\ pc = "afterA"
  /\ pc' = "B"
  /\ StartStage(StageB(best_params))

StartC ==
  /\ pc = "afterB"
  /\ pc' = "C"
  /\ StartStage(StageC(best_params))

\* One evaluation of the objective by the running gp_minimize call.  An
\* exception of the objective ends gp_minimize and the controller with it.
Evaluate ==
  /\ pc \in {"A", "B", "C"}
  /\ ~GpReturns(opt)
  /\ \E x \in GpAsk(opt) :
       \E r \in {objective_function(x, search_space_names, fixed_params,
                                   ground_truth_traj, steps, impulses, call_count)} :
           /\ call_count' = r.call_count
           /\ fixed_params' = r.fixed_params
           /\ last_call' = CallRecord(r)
           /\ IF r.error = ""
              THEN opt' = GpTell(opt, x, r.rmse) /\ pc' = pc
              ELSE opt' = opt /\ pc' = "error"
  /\ UNCHANGED <<best_params, result_a, result_b, result_c, final_params, out>>
  /\ UNCHANGED <<current_stage, search_space_names, ground_truth_traj, steps,
                 impulses, seen>>
  /\ UNCHANGED <<sim_vars, cmp_vars>>

FinishA ==
  /\ pc = "A"
  /\ StageEnds(opt)
  /\ result_a' = opt.x
  /\ best_params' = MergeResultA(best_params, opt.x)
  /\ out' = Append(out, "Stage A Complete")
  /\ pc' = "afterA"
  /\ UNCHANGED <<result_b, result_c, final_params, opt>>
  /\ UNCHANGED <<obj_vars, sim_vars, cmp_vars>>

FinishB ==
  /\ pc = "B"
  /\ StageEnds(opt)
  /\ result_b' = opt.x
  /\ best_params' = MergeResultB(best_params, opt.x)
  /\ out' = Append(out, "Stage B Complete")
  /\ pc' = "afterB"
  /\ UNCHANGED <<result_a, result_c, final_params, opt>>
  /\ UNCHANGED <<obj_vars, sim_vars, cmp_vars>>

FinishC ==
  /\ pc = "C"
  /\ StageEnds(opt)
  /\ result_c' = opt.x
  /\ final_params' = FinalParams(opt.x)
  /\ out' = Append(out, "Refinement Complete")
  /\ pc' = "done"
  /\ UNCHANGED <<result_a, result_b, best_params, opt>>
  /\ UNCHANGED <<obj_vars, sim_vars, cmp_vars>>

IdleObjective ==
  /\ call_count = 0
  /\ current_stage = ""
  /\ search_space_names = <<>>
  /\ fixed_params = EmptyDict
  /\ ground_truth_traj = <<>>
  /\ steps = 0
  /\ impulses = <<>>
  /\ last_call = NoCall
  /\ seen = [p \in {} |-> NoCall]

IdleController ==
  /\ best_params = initial_guess
  /\ result_a = <<>>
  /\ result_b = <<>>
  /\ result_c = <<>>
  /\ final_params = EmptyDict
  /\ opt = NoOptimizer
  /\ out = <<>>

IdleSimulator ==
  /\ sim_pc = "idle"
  /\ sim_step = 0
  /\ sim_k = 0
  /\ sim_body = Simulator(EmptyDict)
  /\ trajectory = <<>>
  /\ applied = <<>>
  /\ advances = 0

IdleComparators ==
  /\ cmp_a = <<>>
  /\ cmp_k = 0
  /\ cmp_main = Raised
  /\ cmp_opt = Raised
  /\ cmp_ref = Raised

\* The module is loaded and run_staged_calibration has made best_params.
Init ==
  /\ pc = "start"
  /\ IdleController
  /\ IdleObjective
  /\ IdleSimulator
  /\ IdleComparators

Next ==
  \/ StartA
  \/ Evaluate
  \/ FinishA
  \/ StartB
  \/ FinishB
  \/ StartC
  \/ FinishC

Spec == Init /\ [][Next]_vars

\* The controller is one sequential thread: it takes its next step whenever
\* it has one.
FairSpec == Spec /\ WF_vars(Next)

-----------------------------------------------------------------------------
(* objective_function on its own: one of the objectives the controller    *)
(* builds, called with free-value sequences of every length up to one     *)
(* more than the number of free names.                                    *)

\* best_params as the controller holds it before Stage A, B and C
BestBeforeA == initial_guess
BestBeforeB ==
  MergeResultA(BestBeforeA, CHOOSE x \in SamplePoints(search_space_a) :
                              x[1] = search_space_a[1].high)
BestBeforeC ==
  MergeResultB(BestBeforeB, CHOOSE x \in SamplePoints(search_space_b) :
                              x[1] = search_space_b[1].low)

BuiltObjectives ==
  { <<BestBeforeA, StageA(BestBeforeA)>>, <<BestBeforeB, StageB(BestBeforeB)>>,
    <<BestBeforeC, StageC(BestBeforeC)>> }

\* The two ends of the stage's sample points and its warm-start point,
\* each cut to every shorter length and extended by one value.
FreeValues(stage) ==
  LET ends == { x \in SamplePoints(stage.dimensions) :
                  x[1] \in {stage.dimensions[1].low, stage.dimensions[1].high} }
      full == ends \cup ({stage.x0} \ {<<>>})
  IN  { SubSeq(x, 1, k) : x \in full, k \in 0..Len(stage.names) }
      \cup { Append(x, x[1]) : x \in full }

ObjInit ==
  /\ pc = "objective"
  /\ \E b \in BuiltObjectives :
       /\ best_params = b[1]
       /\ current_stage = b[2].label
       /\ search_space_names = b[2].names
       /\ fixed_params = b[2].fixed
       /\ steps = b[2].steps
       /\ impulses = b[2].impulses
       /\ ground_truth_traj =
            run_simulation_for_trajectory(Simulator(GROUND_TRUTH_PARAMS),
                                          b[2].steps, b[2].impulses)
       /\ opt = gp_minimize(b[2].dimensions, b[2].n_calls, b[2].x0)
  /\ call_count = 0
  /\ last_call = NoCall
  /\ seen = [p \in {} |-> NoCall]
  /\ result_a = <<>>
  /\ result_b = <<>>
  /\ result_c = <<>>
  /\ final_params = EmptyDict
  /\ out = <<>>
  /\ IdleSimulator
  /\ IdleComparators

\* A call of the objective; an exception is kept in last_call.
CallObjective ==
  /\ pc = "objective"
  /\ call_count < MaxCalls
  /\ \E x \in FreeValues([dimensions |-> opt.dimensions, x0 |-> opt.x0,
                          names |-> search_space_names]) :
       \E r \in {objective_function(x, search_space_names, fixed_params,
                                    ground_truth_traj, steps, impulses, call_count)} :
           /\ call_count' = r.call_count
           /\ fixed_params' = r.fixed_params
           /\ last_call' = CallRecord(r)
           /\ seen' = [p \in DOMAIN seen \cup {x} |->
                         IF p \in DOMAIN seen THEN seen[p]
                         ELSE [first |-> r.call_count, error |-> r.error,
                               rmse |-> r.rmse]]
  /\ UNCHANGED <<pc, ctl_vars, sim_vars, cmp_vars>>
  /\ UNCHANGED <<current_stage, search_space_names, ground_truth_traj, steps, impulses>>

ObjNext == CallObjective

ObjSpec == ObjInit /\ [][ObjNext]_vars

-----------------------------------------------------------------------------
(* Simulator.run_simulation_for_trajectory, statement by statement *)

ImpulseVectors == { EXP_A_IMPULSES[1][2], EXP_B_IMPULSES[1][2] }

ScheduleEntries == (0..MaxSteps) \X ImpulseVectors

Schedules ==
  UNION { [1..n -> ScheduleEntries] : n \in 0..MaxImpulses }

SimInitial == Simulator(GROUND_TRUTH_PARAMS)

SimInit ==
  /\ pc = "simulation"
  /\ IdleController
  /\ call_count = 0
  /\ current_stage = ""
  /\ search_space_names = <<>>
  /\ fixed_params = EmptyDict
  /\ ground_truth_traj = <<>>
  /\ last_call = NoCall
  /\ seen = [p \in {} |-> NoCall]
  /\ steps \in 0..MaxSteps
  /\ impulses \in Schedules
  /\ sim_pc = "for"
  /\ sim_step = 0
  /\ sim_k = 0
  /\ sim_body = SimInitial
  /\ trajectory = <<>>
  /\ applied = <<>>
  /\ advances = 0
  /\ IdleComparators

\* "for step in range(steps)": the next round starts
SimEnter ==
  /\ sim_pc = "for"
  /\ sim_step < steps
  /\ sim_pc' = "impulses"
  /\ sim_k' = 1
  /\ UNCHANGED <<sim_step, sim_body, trajectory, applied, advances>>
  /\ UNCHANGED <<pc, ctl_vars, obj_vars, cmp_vars>>

\* one entry of "for t_impulse, impulse_vector in impulses"
SimImpulse ==
  /\ sim_pc = "impulses"
  /\ sim_k <= Len(impulses)
  /\ sim_body' = ApplyIfScheduled(sim_body, impulses[sim_k], sim_step)
  /\ applied' =
       IF sim_body' # sim_body
       THEN Append(applied, [ entry |-> sim_k, step |-> sim_step,
                              advances |-> advances,
                              dw |-> << sim_body'.w[1] - sim_body.w[1],
                                        sim_body'.w[2] - sim_body.w[2] >> ])
       ELSE applied
  /\ sim_k' = sim_k + 1
  /\ UNCHANGED <<sim_pc, sim_step, trajectory, advances>>
  /\ UNCHANGED <<pc, ctl_vars, obj_vars, cmp_vars>>

\* "self.space.step(1 / 60.0); trajectory.append(self.body.position)"
SimAdvance ==
  /\ sim_pc = "impulses"
  /\ sim_k > Len(impulses)
  /\ \E s \in {AdvanceAndRecord(sim_body, trajectory)} :
       /\ sim_body' = s.sim
       /\ trajectory' = s.trajectory
  /\ advances' = advances + 1
  /\ sim_step' = sim_step + 1
  /\ sim_pc' = "for"
  /\ UNCHANGED <<sim_k, applied>>
  /\ UNCHANGED <<pc, ctl_vars, obj_vars, cmp_vars>>

\* "return trajectory"
SimReturn ==
  /\ sim_pc = "for"
  /\ sim_step >= steps
  /\ sim_pc' = "returned"
  /\ UNCHANGED <<sim_step, sim_k, sim_body, trajectory, applied, advances>>
  /\ UNCHANGED <<pc, ctl_vars, obj_vars, cmp_vars>>

SimNext ==
  \/ SimEnter
  \/ SimImpulse
  \/ SimAdvance
  \/ SimReturn

SimSpec == SimInit /\ [][SimNext]_vars

-----------------------------------------------------------------------------
(* The comparators on a trajectory a and its first k entries *)

CmpPoints == { <<16 * i, 16 * j>> : i, j \in 0..MaxCoord }

CmpTrajectories == UNION { [1..n -> CmpPoints] : n \in 1..MaxLen }

\* a[:k]
Prefix(a, k) == SubSeq(a, 1, k)

CmpInit ==
  /\ pc = "compare"
  /\ IdleController
  /\ IdleObjective
  /\ IdleSimulator
  /\ cmp_a \in CmpTrajectories
  /\ cmp_k \in 1..Len(cmp_a)
  /\ cmp_main = Raised
  /\ cmp_opt = Raised
  /\ cmp_ref = Raised

Compare ==
  /\ pc = "compare"
  /\ pc' = "compared"
  /\ cmp_main' = calculate_rmse(cmp_a, Prefix(cmp_a, cmp_k))
  /\ cmp_opt' = BO_calculate_rmse(cmp_a, Prefix(cmp_a, cmp_k))
  /\ cmp_ref' = calculate_rmse(cmp_a, PadWithLast(Prefix(cmp_a, cmp_k), Len(cmp_a)))
  /\ UNCHANGED <<cmp_a, cmp_k>>
  /\ UNCHANGED <<ctl_vars, obj_vars, sim_vars>>

CmpNext == Compare

CmpSpec == CmpInit /\ [][CmpNext]_vars

-----------------------------------------------------------------------------
(* Claims *)

InBounds(x, dimensions) ==
  /\ Len(x) = Len(dimensions)
  /\ \A d \in 1..Len(dimensions) :
       dimensions[d].low <= x[d] /\ x[d] <= dimensions[d].high

\* C1: every Stage A evaluation simulates with the friction of the initial
\* guess, and every Stage B evaluation with the elasticity and the mass that
\* Stage A's optimizer run returned; Stage C fixes nothing.
C1_FixedAreBestEstimate ==
  /\ pc \in {"A", "afterA"} =>
       /\ fixed_params = Dict(<<"friction">>, [friction |-> initial_guess.val.friction])
       /\ last_call # NoCall =>
            /\ last_call.simulated
            /\ last_call.current_params.val.friction = initial_guess.val.friction
  /\ pc \in {"B", "afterB"} =>
       /\ fixed_params = Dict(<<"elasticity", "mass">>,
                              [elasticity |-> result_a[1], mass |-> result_a[2]])
       /\ last_call # NoCall =>
            /\ last_call.simulated
            /\ last_call.current_params.val.elasticity = result_a[1]
            /\ last_call.current_params.val.mass = result_a[2]
  /\ pc \in {"C", "done"} => fixed_params = EmptyDict

C1_Witness ==
  /\ pc = "B"
  /\ call_count = 2
  /\ result_a = <<search_space_a[1].high, search_space_a[2].high>>
  /\ last_call.current_params.val.mass = search_space_a[2].high

\* C2: the controller runs Stage A, Stage B and Stage C once each and in
\* that order, leaves a stage only when the stage's whole budget is spent,
\* and ends holding the final parameters; it always ends.
C2_StagesInOrder ==
  /\ [][pc' # pc =>
          /\ <<pc, pc'>> \in { <<"start", "A">>, <<"A", "afterA">>, <<"afterA", "B">>,
                               <<"B", "afterB">>, <<"afterB", "C">>, <<"C", "done">> }
          /\ pc \in {"A", "B", "C"} => opt.n = opt.n_calls /\ call_count = opt.n_calls
     ]_vars
  /\ [](pc = "done" =>
          /\ out = << "Stage A (Bounce)", "Stage A Complete", "Stage B (Slide)",
                      "Stage B Complete", "Stage C (Refine)", "Refinement Complete" >>
          /\ final_params = FinalParams(result_c))
  /\ <>(pc = "done")

C2_Witness ==
  /\ pc = "done"
  /\ Len(out) = 6
  /\ final_params.val.mass = result_c[3]

\* C8: every point passed to the objective lies within the bounds of the
\* running stage's search space, the warm-start point of Stage C included.
C8_QueriesInBounds ==
  /\ last_call # NoCall =>
       /\ InBounds(last_call.params, opt.dimensions)
       /\ \A d \in 1..Len(last_call.params) :
            IF search_space_names[d] = "mass"
            THEN last_call.params[d] \in 500..2500
            ELSE last_call.params[d] \in 10..100
  /\ opt.x0 # <<>> => InBounds(opt.x0, opt.dimensions)

C8_Witness ==
  /\ pc = "C"
  /\ call_count = 1
  /\ last_call.params = opt.x0
  /\ last_call.params[1] # last_call.params[2]
  /\ last_call.simulated

\* C9: in every stage the counter is the number of evaluations made in that
\* stage, and never exceeds the stage's budget of 50, 30 and 70 calls.
C9_CallBudget ==
  /\ pc \in {"A", "afterA"} => opt.n_calls = 50
  /\ pc \in {"B", "afterB"} => opt.n_calls = 30
  /\ pc \in {"C", "done"} => opt.n_calls = 70
  /\ call_count = opt.n
  /\ call_count <= opt.n_calls

C9_Witness ==
  /\ pc = "B"
  /\ call_count = 30
  /\ opt.n = 30

\* C10: Stage C is warm-started at (friction of Stage B, elasticity of Stage
\* A, mass of Stage A), in the order of its search space and of the names
\* the objective unpacks; the updates of best_params keep its key order; and
\* the final parameters take components 0, 1, 2 of Stage C's best point as
\* friction, elasticity and mass.
C10_WarmStartOrder ==
  /\ best_params.keys = <<"friction", "elasticity", "mass">>
  /\ pc = "C" =>
       /\ opt.x0 = <<result_b[1], result_a[1], result_a[2]>>
       /\ search_space_names = <<"friction", "elasticity", "mass">>
       /\ [d \in 1..3 |-> opt.dimensions[d].name] = search_space_names
       /\ call_count = 1 =>
            last_call.current_params.val =
              [friction |-> result_b[1], elasticity |-> result_a[1], mass |-> result_a[2]]
  /\ pc = "done" =>
       final_params.val =
         [friction |-> result_c[1], elasticity |-> result_c[2], mass |-> result_c[3]]

C10_Witness ==
  /\ pc = "C"
  /\ call_count = 1
  /\ result_b[1] # result_a[1]
  /\ opt.x0 = <<search_space_b[1].low, search_space_a[1].high, search_space_a[2].high>>

\* C3: each scheduled impulse is applied once, at the step equal to its
\* stepIndex and before that step's advance, impulses of the same step all
\* at that step; an impulse whose stepIndex is not below steps is never
\* applied; and the order of entries with distinct stepIndex leaves the
\* trajectory as it is.
C3_ImpulsesOnce ==
  /\ \A i \in DOMAIN applied :
       /\ applied[i].step = impulses[applied[i].entry][1]
       /\ applied[i].advances = applied[i].step
       /\ applied[i].dw = ImpulseVelocity(SimInitial, impulses[applied[i].entry][2])
  /\ \A k \in DOMAIN impulses :
       Cardinality({i \in DOMAIN applied : applied[i].entry = k}) <= 1
  /\ sim_pc = "returned" =>
       /\ \A k \in DOMAIN impulses :
            Cardinality({i \in DOMAIN applied : applied[i].entry = k})
              = IF impulses[k][1] < steps THEN 1 ELSE 0
       /\ (\A j, k \in DOMAIN impulses : j # k => impulses[j][1] # impulses[k][1]) =>
            \A q \in Permutations(DOMAIN impulses) :
              SimulateLoop(SimInitial, steps, [i \in DOMAIN impulses |-> impulses[q[i]]])
                = trajectory

C3_Witness ==
  /\ sim_pc = "returned"
  /\ steps = 2
  /\ Len(impulses) = 2
  /\ impulses[1][1] = 1
  /\ impulses[2][1] = 0
  /\ Len(applied) = 2
  /\ applied[1].entry = 2
  /\ trajectory[1] # trajectory[2]

\* C4: the trajectory holds one entry per advance made, each the body's
\* position right after that advance and never changed later, so the run
\* returns exactly steps entries.
C4_OneEntryPerAdvance ==
  /\ [](/\ Len(trajectory) = advances
        /\ advances > 0 => trajectory[advances] = Position(sim_body)
        /\ sim_pc = "returned" => Len(trajectory) = steps)
  /\ [][/\ Len(trajectory') >= Len(trajectory)
        /\ \A i \in DOMAIN trajectory : trajectory'[i] = trajectory[i]]_vars

C4_Witness ==
  /\ sim_pc = "returned"
  /\ steps = 3
  /\ Len(trajectory) = 3
  /\ trajectory[1] # trajectory[2]
  /\ trajectory[2] # trajectory[3]

\* C5: for every k with 1 <= k < len(a), the comparator of the calibration
\* objective returns, and returns for (a, a[:k]) what it returns for a and
\* a[:k] padded with copies of a[k-1].
C5_PaddingEquality ==
  (pc = "compared" /\ cmp_k < Len(cmp_a)) => (cmp_main.ok /\ cmp_main = cmp_ref)

\* The padding equality of BayesianOptimizer._calculate_rmse, the comparator
\* the calibration objective does not use.
BO_PaddingEquality ==
  (pc = "compared" /\ cmp_k < Len(cmp_a)) => (cmp_opt.ok /\ cmp_opt = cmp_ref)

\* C6: a call whose free values are fewer or more than the free names
\* raises, and raises before any simulation is run.
C6_MismatchFailsFast ==
  (last_call # NoCall /\ Len(last_call.params) # Len(search_space_names))
    => (last_call.error # "" /\ ~last_call.simulated)

\* C7: a call of the objective adds one to the counter and changes nothing
\* else, and returns what the first call with the same free values returned.
C7_OnlyTheCounter ==
  [][ /\ call_count' = call_count + 1
      /\ fixed_params' = fixed_params
      /\ ground_truth_traj' = ground_truth_traj
      /\ impulses' = impulses
      /\ steps' = steps
      /\ search_space_names' = search_space_names
      /\ best_params' = best_params
      /\ last_call'.params \in DOMAIN seen =>
           /\ last_call'.rmse = seen[last_call'.params].rmse
           /\ last_call'.error = seen[last_call'.params].error
    ]_vars

C7_Witness ==
  /\ call_count = 3
  /\ Cardinality(DOMAIN seen) = 2
  /\ seen[last_call.params].first = 1
  /\ last_call.simulated
  /\ last_call.error = ""
  /\ last_call.rmse > 0
=============================================================================
